---- MODULE Spec2Model ----
(***************************************************************************)
(* The VM lifecycle supervisor of docker-apps, as the code runs it:        *)
(*                                                                         *)
(*   UI store (useQemuStore, JavaScript, one thread, run to completion)    *)
(*     --callQ-->  bridge module (QemuModule.java, native-modules thread)  *)
(*     --intentQ-->  foreground service (QemuService.java, main thread)    *)
(*     --> the QEMU child process                                          *)
(*   bridge --toJS--> store: promise settlements and device events, in the *)
(*   order the bridge produced them.                                       *)
(*                                                                         *)
(* An async store function is cut at its awaits: the part up to the await  *)
(* is one action (it ends by queueing the bridge call), the part after the *)
(* await is the handling of that call's reply in JS_deliver.               *)
(*                                                                         *)
(* Parts that do not depend on the lifecycle have specifications of their  *)
(* own: LogSpec (the log buffers), CmdSpec (QemuManager.executeCommand),   *)
(* LaunchSpec (the launch argument vectors), ConfigSpec (the stored RAM    *)
(* and CPU settings) and NativeSpec (qemu_jni.c).                          *)
(***************************************************************************)
EXTENDS Integers, Sequences, FiniteSets, TLC

\* ------------------------------------------------------------------ bounds
\* Operations started in a run: the store and service operations a screen
\* requests, and the ticks of the status polling timer. Also the number of
\* nativeStart calls of the native wrapper, and so of the pids it records.
MaxOps == 2
\* Bridge calls in flight at once (user calls and polls).
MaxQueue == 2
\* The store keeps the last 200 log entries (slice(-200)); the model keeps
\* the last StoreLogCap.
StoreLogCap == 3
\* QemuService keeps the last 10000 characters of the child's output; the
\* model keeps the last LogBufferCap.
LogBufferCap == 4
\* Lines the child prints and lines written to vm.log in a run.
MaxLines == 3
\* The largest line count asked of getLogs.
MaxN == 2
\* The longest output of a guest command.
MaxOut == 3
\* nativeStop polls waitpid 50 times, 100 ms apart, before it kills; the
\* model polls MaxPolls times.
MaxPolls == 2

\* ------------------------------------------------------- program constants
MIN_RAM_MB == 512
MAX_RAM_MB == 8192
MIN_CPU_CORES == 1
MAX_CPU_CORES == 8
DEFAULT_RAM_MB == 2048
DEFAULT_CPU_CORES == 2

\* VM_STATUS
STOPPED == "stopped"
STARTING == "starting"
RUNNING == "running"
STOPPING == "stopping"
ERROR == "error"
INITIALIZING == "initializing"
VM_STATUS == {STOPPED, STARTING, RUNNING, STOPPING, ERROR, INITIALIZING}

\* The arguments a caller hands to startVM(customRamMB, customCpuCores);
\* 0 stands for an omitted (undefined) argument.
StartInputs == {<<0, 0>>, <<100, 9>>}

EventKinds == {"vmStatus", "vmLog", "vmError"}

NoError == "null"

\* restartVM waits this long between its stop and its start: the store's
\* restartVM, and QemuServiceClass.restartVM
RESTART_DELAY_MS == 2000
SERVICE_RESTART_DELAY_MS == 1000

\* the caller tag of the calls QemuServiceClass.restartVM makes itself
SvcRestart == "QemuService.restartVM"

VARIABLES
    \* useQemuStore
    vmStatus, isInitialized, error, statusInterval, vmLogs, vmStats,
    ramMB, cpuCores,
    \* QemuServiceClass.listeners (per event kind), the live setInterval timers
    \* and the pending setTimeout delays of the restarts
    listeners, timers, delays,
    \* JS -> native calls, native -> JS promise settlements and events
    callQ, toJS,
    \* QemuModule, and the last status it published on the vmStatus stream
    moduleInitialized, bootThreads, published,
    \* QemuService (foreground service)
    intentQ, isRunning, qemuProcess, startTime, svcPc, qemuCmd,
    \* the child process and its control socket file
    proc, qmpSock,
    \* operations started so far; whether a stop was requested while a
    \* startVM was in flight and no startVM has been requested since
    ops, raced,
    \* QemuService.logBuffer, all the output ever appended to it, and where the
    \* output reader thread is ("read": outside its synchronized block,
    \* "appended": inside it, between the append and the trim)
    logBuffer, captured, readerPc,
    \* the file files/qemu/vm.log
    vmLogFile,
    \* every message handed to the store's addLog by LogSpec
    allLogged,
    \* the last getLogs call: whose, its argument and its result
    lastLogs,
    \* the last QemuManager.executeCommand call: what each transport met and
    \* what the call returned
    lastCmd,
    \* the last launch: who built its argument vector, the RAM and CPU count
    \* asked for, and the vector
    lastLaunch,
    \* AsyncStorage (the items @vm_ram and @vm_cpu), the loadSettings under
    \* way, and the setRamMB / setCpuCores calls waiting for their write
    asyncStorage, loading, settling,
    \* qemu_jni.c: *qemu_state, the children of the app process by pid, whether
    \* the app has another child, the threads inside nativeStop and
    \* nativeGetStatus, the last kill or waitpid, the pids nativeStart recorded
    qemu_state, children, otherChild, stopT, statusT, lastSys, started

storeVars == <<vmStatus, isInitialized, error, statusInterval, vmLogs, vmStats,
               ramMB, cpuCores>>
jsVars == <<listeners, timers, delays>>
chanVars == <<callQ, toJS>>
moduleVars == <<moduleInitialized, bootThreads, published>>
svcVars == <<intentQ, isRunning, qemuProcess, startTime, svcPc, qemuCmd>>
procVars == <<proc, qmpSock>>

envVars == <<ops, raced>>
logVars == <<logBuffer, captured, readerPc, vmLogFile, allLogged, lastLogs>>

configVars == <<asyncStorage, loading, settling>>
nativeVars == <<qemu_state, children, otherChild, stopT, statusT, lastSys,
                started>>
auxVars == <<lastCmd, lastLaunch, configVars, nativeVars>>

vars == <<storeVars, jsVars, chanVars, moduleVars, svcVars, procVars, envVars,
          logVars, auxVars>>

\* ----------------------------------------------------------------- helpers
\* [...state.vmLogs, entry].slice(-200)
addLog(logs, message) ==
    LET all == Append(logs, message)
        n == Len(all)
    IN  IF n > StoreLogCap THEN SubSeq(all, n - StoreLogCap + 1, n) ELSE all

RECURSIVE addLogs(_, _, _)
\* the same message logged by each of n listeners
addLogs(logs, message, n) ==
    IF n = 0 THEN logs ELSE addLogs(addLog(logs, message), message, n - 1)

\* customRamMB || ramMB
OrDefault(custom, stored) == IF custom # 0 THEN custom ELSE stored

Call(m, by, ram, cpu) == [m |-> m, by |-> by, ram |-> ram, cpu |-> cpu]

Reply(c, ok, st) ==
    [t |-> "reply", m |-> c.m, by |-> c.by, ok |-> ok, st |-> st,
     ram |-> c.ram, cpu |-> c.cpu]

Event(kind, st) ==
    [t |-> "event", m |-> kind, by |-> "", ok |-> TRUE, st |-> st,
     ram |-> 0, cpu |-> 0]

\* calls handed to the bridge whose promise the store has not yet seen settle
InFlight == Len(callQ) + Cardinality({i \in DOMAIN toJS : toJS[i].t = "reply"})

CanCall == InFlight < MaxQueue

\* a startVM that has been requested and has not yet returned to its caller:
\* it awaits its own initialize or its launch call
IsStartMsg(x) ==
    /\ x.by \in {"startVM", "restartVM"}
    /\ x.m \in {"startVM", "initialize"}

StartInFlight ==
    \/ \E i \in DOMAIN callQ : IsStartMsg(callQ[i])
    \/ \E i \in DOMAIN toJS : toJS[i].t = "reply" /\ IsStartMsg(toJS[i])

\* ------------------------------------------------------------------- Init
Init ==
    /\ vmStatus = STOPPED
    /\ isInitialized = FALSE
    /\ error = NoError
    /\ statusInterval = 0
    /\ vmLogs = <<>>
    /\ vmStats = "zero"
    /\ ramMB = DEFAULT_RAM_MB
    /\ cpuCores = DEFAULT_CPU_CORES
    /\ listeners = [k \in EventKinds |-> 0]
    /\ timers = {}
    /\ delays = <<>>
    /\ callQ = <<>>
    /\ toJS = <<>>
    /\ moduleInitialized = FALSE
    /\ bootThreads = 0
    /\ published = ""
    /\ intentQ = <<>>
    /\ isRunning = FALSE
    /\ qemuProcess = FALSE
    /\ startTime = 0
    /\ svcPc = "idle"
    /\ qemuCmd = [m |-> 0, smp |-> 0]
    /\ proc = "none"
    /\ qmpSock = FALSE
    /\ ops = 0
    /\ raced = FALSE
    /\ logBuffer = <<>>
    /\ captured = <<>>
    /\ readerPc = "read"
    /\ vmLogFile = [exists |-> FALSE, text |-> <<>>]
    /\ allLogged = <<>>
    /\ lastLogs = [of |-> "none", n |-> 0, out |-> <<>>, seen |-> 0]
    /\ lastCmd = [of |-> "none"]
    /\ lastLaunch = [by |-> "none"]
    /\ asyncStorage = [VM_RAM |-> <<"null">>, VM_CPU |-> <<"null">>]
    /\ loading = [pc |-> "idle", ramMB |-> 0]
    /\ settling = <<>>
    /\ qemu_state = [pid |-> -1, running |-> 0]
    /\ children = [p \in 1..MaxOps |-> "none"]
    /\ otherChild = FALSE
    /\ stopT = [pc |-> "idle", wait_count |-> 0, result |-> 0]
    /\ statusT = [pc |-> "idle", result |-> 0]
    /\ lastSys = [by |-> "none", fn |-> "none", pid |-> 0]
    /\ started = {}

\* ============================================================== the store
\* The JavaScript heap the store functions read and write, as one record, so
\* that a function body is the composition of its statements.
JS == [vmStatus |-> vmStatus, isInitialized |-> isInitialized, error |-> error,
       statusInterval |-> statusInterval, vmLogs |-> vmLogs, vmStats |-> vmStats,
       listeners |-> listeners, timers |-> timers, delays |-> delays,
       callQ |-> callQ]

Commit(s) ==
    /\ vmStatus' = s.vmStatus
    /\ isInitialized' = s.isInitialized
    /\ error' = s.error
    /\ statusInterval' = s.statusInterval
    /\ vmLogs' = s.vmLogs
    /\ vmStats' = s.vmStats
    /\ listeners' = s.listeners
    /\ timers' = s.timers
    /\ delays' = s.delays
    /\ callQ' = s.callQ
    /\ UNCHANGED <<ramMB, cpuCores>>

log(s, message) == [s EXCEPT !.vmLogs = addLog(s.vmLogs, message)]

invoke(s, c) == [s EXCEPT !.callQ = Append(s.callQ, c)]

\* initialize, up to `await QemuService.initialize()`
initialize_begin(s, by, ram, cpu) ==
    invoke([s EXCEPT !.vmStatus = INITIALIZING, !.error = NoError],
           Call("initialize", by, ram, cpu))

\* initialize, after the await
initialize_resume(s, r) ==
    IF r.ok
    THEN log([s EXCEPT !.isInitialized = TRUE, !.vmStatus = STOPPED,
                       !.error = NoError],
             "QEMU environment initialized successfully")
    ELSE log([s EXCEPT !.vmStatus = ERROR, !.error = r.st],
             "Initialization failed")

\* startVM from `set({ vmStatus: STARTING })` up to `await QemuService.startVM`
startVM_launch(s, by, ram, cpu) ==
    invoke(log([s EXCEPT !.vmStatus = STARTING, !.error = NoError],
               "Starting VM"),
           Call("startVM", by, ram, cpu))

\* startVM, up to its first await
startVM_begin(s, by, customRamMB, customCpuCores) ==
    LET ram == OrDefault(customRamMB, ramMB)
        cpu == OrDefault(customCpuCores, cpuCores)
    IN  IF ~s.isInitialized
        THEN initialize_begin(s, by, ram, cpu)
        ELSE startVM_launch(s, by, ram, cpu)

\* a startStatusPolling that does not clear the interval it replaces
startStatusPolling_keepsOld(s) ==
    LET interval == CHOOSE i \in 1..(Cardinality(s.timers) + 1) : i \notin s.timers
    IN  [s EXCEPT !.timers = s.timers \cup {interval}, !.statusInterval = interval]

\* startStatusPolling
startStatusPolling(s) ==
    LET cleared == IF s.statusInterval # 0
                   THEN s.timers \ {s.statusInterval} ELSE s.timers
        interval == CHOOSE i \in 1..(Cardinality(cleared) + 1) : i \notin cleared
    IN  [s EXCEPT !.timers = cleared \cup {interval}, !.statusInterval = interval]

\* stopStatusPolling
stopStatusPolling(s) ==
    IF s.statusInterval # 0
    THEN [s EXCEPT !.timers = s.timers \ {s.statusInterval}, !.statusInterval = 0]
    ELSE s

\* setupEventListeners: one more subscription for each event kind
setupEventListeners(s) ==
    [s EXCEPT !.listeners = [k \in EventKinds |-> s.listeners[k] + 1]]

\* removeAllListeners that also empties the store's log list
removeAllListeners_dropsLogs(s) ==
    [s EXCEPT !.listeners = [k \in EventKinds |-> 0], !.vmLogs = <<>>]

\* QemuService.removeAllListeners
removeAllListeners(s) ==
    [s EXCEPT !.listeners = [k \in EventKinds |-> 0]]

\* startVM with its polling and listener registration moved ahead of the
\* outcome test, so that a failed launch registers them too
startVM_resume_registersFirst(s, r) ==
    LET s1 == setupEventListeners(startStatusPolling(s))
    IN  IF r.ok
        THEN log([s1 EXCEPT !.vmStatus = RUNNING], "VM started successfully")
        ELSE log([s1 EXCEPT !.vmStatus = ERROR, !.error = r.st], "VM start failed")

\* startVM, after `await QemuService.startVM`
startVM_resume(s, r) ==
    IF r.ok
    THEN setupEventListeners(startStatusPolling(
             log([s EXCEPT !.vmStatus = RUNNING], "VM started successfully")))
    ELSE log([s EXCEPT !.vmStatus = ERROR, !.error = r.st], "VM start failed")

\* stopVM, up to `await QemuService.stopVM()`
stopVM_begin(s, by) ==
    invoke(log([s EXCEPT !.vmStatus = STOPPING, !.error = NoError], "Stopping VM"),
           Call("stopVM", by, 0, 0))

\* stopVM, after the await
stopVM_resume(s, r) ==
    IF r.ok
    THEN removeAllListeners(stopStatusPolling(
             log([s EXCEPT !.vmStatus = STOPPED], "VM stopped successfully")))
    ELSE log([s EXCEPT !.error = r.st], "VM stop failed")

\* getStatus, after `await QemuService.getStatus()`
getStatus_resume(s, r) ==
    IF r.ok
    THEN [s EXCEPT !.vmStats = IF r.st = "running" THEN "live" ELSE "zero"]
    ELSE s

\* sendCommand, up to the await
sendCommand_begin(s) ==
    invoke(log(s, "> command"), Call("sendCommand", "sendCommand", 0, 0))

\* sendCommand whose catch marks the phase `error` and drops the polling timer,
\* as startVM's catch marks the phase
sendCommand_resume_marksError(s, r) ==
    IF r.ok
    THEN IF r.st # "" THEN log(s, r.st) ELSE s
    ELSE log(stopStatusPolling([s EXCEPT !.vmStatus = ERROR]), "Command failed")

\* sendCommand, after the await
sendCommand_resume(s, r) ==
    IF r.ok
    THEN IF r.st # "" THEN log(s, r.st) ELSE s
    ELSE log(s, "Command failed")

\* the listeners setupEventListeners registers, run for one device event
onEvent(s, e) ==
    LET n == s.listeners[e.m]
    IN  IF n = 0 THEN s
        ELSE IF e.m = "vmStatus"
        THEN LET logged == [s EXCEPT !.vmLogs = addLogs(s.vmLogs, "VM Status", n)]
             IN  IF e.st = "stopped" THEN [logged EXCEPT !.vmStatus = STOPPED]
                 ELSE logged
        ELSE IF e.m = "vmLog"
        THEN [s EXCEPT !.vmLogs = addLogs(s.vmLogs, "vmLog", n)]
        ELSE [s EXCEPT !.error = e.st, !.vmLogs = addLogs(s.vmLogs, "Error", n)]

\* setTimeout(resolve, ms) awaited by a restart
delay(s, by, ms) == [s EXCEPT !.delays = Append(s.delays, [by |-> by, ms |-> ms])]

\* restartVM, up to `await get().stopVM()`
restartVM_begin(s) == stopVM_begin(log(s, "Restarting VM"), "restartVM")

\* restartVM, after `await get().stopVM()`: the settle delay, or the catch
restartVM_stopped(s, r) ==
    IF r.ok THEN delay(s, "restartVM", RESTART_DELAY_MS)
    ELSE log(s, "VM restart failed")

\* restartVM, after `await get().startVM()` returned or threw
restartVM_started(s, ok) ==
    IF ok THEN log(s, "VM restarted successfully")
    ELSE log(s, "VM restart failed")

\* QemuServiceClass.restartVM, after `await this.stopVM()`
QemuService_restartVM_stopped(s, r) ==
    IF r.ok THEN delay(s, SvcRestart, SERVICE_RESTART_DELAY_MS) ELSE s

\* startVM awaiting its own initialize that swallows a failed initialization
\* and goes on to the launch
startVM_initialized_ignoresFailure(s, r) == startVM_launch(s, r.by, r.ram, r.cpu)

\* startVM, after `await get().initialize()`: a failed initialize throws out
\* of startVM (and into the catch of a restartVM that called it)
startVM_initialized(s, r) ==
    IF r.ok THEN startVM_launch(s, r.by, r.ram, r.cpu)
    ELSE IF r.by = "restartVM" THEN restartVM_started(s, FALSE)
    ELSE s

\* one settled promise: the rest of the async function that awaited it
onReply(s, r) ==
    IF r.by = SvcRestart
    THEN IF r.m = "stopVM" THEN QemuService_restartVM_stopped(s, r) ELSE s
    ELSE IF r.m = "initialize"
    THEN LET s1 == initialize_resume(s, r)
         IN  IF r.by = "initialize" THEN s1 ELSE startVM_initialized(s1, r)
    ELSE IF r.m = "startVM"
    THEN LET s1 == startVM_resume(s, r)
         IN  IF r.by = "restartVM" THEN restartVM_started(s1, r.ok) ELSE s1
    ELSE IF r.m = "stopVM"
    THEN LET s1 == stopVM_resume(s, r)
         IN  IF r.by = "restartVM" THEN restartVM_stopped(s1, r) ELSE s1
    ELSE IF r.m = "getStatus" THEN getStatus_resume(s, r)
    ELSE sendCommand_resume(s, r)

\* the continuation of a restart whose settle delay has elapsed
onTimeout(s, d) ==
    IF d.by = SvcRestart
    THEN invoke(s, Call("startVM", SvcRestart, DEFAULT_RAM_MB, DEFAULT_CPU_CORES))
    ELSE startVM_begin(s, "restartVM", 0, 0)

\* clearLogs
clearLogs(s) == [s EXCEPT !.vmLogs = <<>>]

notJS == <<moduleVars, svcVars, procVars, logVars, auxVars>>

\* ---- the store's public operations, requested by a screen
Store_initialize ==
    /\ ops < MaxOps /\ CanCall
    /\ Commit(initialize_begin(JS, "initialize", 0, 0))
    /\ ops' = ops + 1
    /\ UNCHANGED <<toJS, notJS, raced>>

Store_startVM(customRamMB, customCpuCores) ==
    /\ ops < MaxOps /\ CanCall
    /\ Commit(startVM_begin(JS, "startVM", customRamMB, customCpuCores))
    /\ ops' = ops + 1
    /\ raced' = FALSE
    /\ UNCHANGED <<toJS, notJS>>

Store_stopVM ==
    /\ ops < MaxOps /\ CanCall
    /\ Commit(stopVM_begin(JS, "stopVM"))
    /\ ops' = ops + 1
    /\ raced' = StartInFlight
    /\ UNCHANGED <<toJS, notJS>>

Store_restartVM ==
    /\ ops < MaxOps /\ CanCall
    /\ Commit(restartVM_begin(JS))
    /\ ops' = ops + 1
    /\ raced' = StartInFlight
    /\ UNCHANGED <<toJS, notJS>>

Store_clearLogs ==
    /\ ops < MaxOps
    /\ Commit(clearLogs(JS))
    /\ ops' = ops + 1
    /\ UNCHANGED <<toJS, notJS, raced>>

\* QemuServiceClass.restartVM, up to `await this.stopVM()`
QemuService_restartVM ==
    /\ ops < MaxOps /\ CanCall
    /\ Commit(invoke(JS, Call("stopVM", SvcRestart, 0, 0)))
    /\ ops' = ops + 1
    /\ UNCHANGED <<toJS, notJS, raced>>

\* a restart's setTimeout fires: the restart goes on to its start
JS_timeout ==
    /\ CanCall
    /\ \E i \in DOMAIN delays :
           LET rest == [j \in 1..(Len(delays) - 1) |->
                           IF j < i THEN delays[j] ELSE delays[j + 1]]
           IN  /\ Commit(onTimeout([JS EXCEPT !.delays = rest], delays[i]))
               /\ raced' = IF delays[i].by = SvcRestart THEN raced ELSE FALSE
    /\ UNCHANGED <<toJS, notJS, ops>>

Store_sendCommand ==
    /\ ops < MaxOps /\ CanCall
    /\ Commit(sendCommand_begin(JS))
    /\ ops' = ops + 1
    /\ UNCHANGED <<toJS, notJS, raced>>

\* the setInterval callback of startStatusPolling
JS_pollTick ==
    /\ timers # {}
    /\ vmStatus = RUNNING
    /\ ops < MaxOps /\ CanCall
    /\ Commit(invoke(JS, Call("getStatus", "poll", 0, 0)))
    /\ ops' = ops + 1
    /\ UNCHANGED <<toJS, notJS, raced>>

\* the JS thread takes the next message from the bridge
JS_deliver ==
    /\ toJS # <<>>
    /\ LET msg == Head(toJS)
       IN  Commit(IF msg.t = "reply" THEN onReply(JS, msg) ELSE onEvent(JS, msg))
    /\ toJS' = Tail(toJS)
    /\ UNCHANGED <<notJS, envVars>>

\* ============================================= the bridge (QemuModule.java)
\* Each @ReactMethod runs to completion on the native-modules thread; emit and
\* promise.resolve/reject reach JS in the order they were made.
notModule == <<storeVars, jsVars, svcPc, isRunning, qemuProcess, startTime,
               qemuCmd, procVars, envVars, logVars, auxVars>>

Intent(action, ram, cpu) == [action |-> action, ram |-> ram, cpu |-> cpu]

\* initialize(promise): the directory, ISO, disk and config are created when
\* absent, which is where it can throw; once they exist nothing in it throws.
Module_initialize ==
    /\ callQ # <<>> /\ Head(callQ).m = "initialize"
    /\ LET c == Head(callQ)
       IN  \/ /\ moduleInitialized' = TRUE
              /\ published' = "initialized"
              /\ toJS' = toJS \o <<Event("vmStatus", "initialized"),
                                   Reply(c, TRUE, "")>>
           \/ /\ ~moduleInitialized
              /\ toJS' = Append(toJS, Reply(c, FALSE, "Failed to initialize QEMU"))
              /\ UNCHANGED <<moduleInitialized, published>>
    /\ callQ' = Tail(callQ)
    /\ UNCHANGED <<bootThreads, intentQ, notModule>>

\* startVM(ramMB, cpuCores, promise); startForegroundService may throw
Module_startVM ==
    /\ callQ # <<>> /\ Head(callQ).m = "startVM"
    /\ LET c == Head(callQ)
       IN  IF ~moduleInitialized
           THEN /\ toJS' = Append(toJS, Reply(c, FALSE, "QEMU not initialized"))
                /\ UNCHANGED <<intentQ, bootThreads, published>>
           ELSE /\ published' = "starting"
                /\ \/ /\ intentQ' = Append(intentQ, Intent("START", c.ram, c.cpu))
                      /\ bootThreads' = bootThreads + 1
                      /\ toJS' = toJS \o <<Event("vmStatus", "starting"),
                                           Reply(c, TRUE, "")>>
                   \/ /\ toJS' = toJS \o <<Event("vmStatus", "starting"),
                                           Event("vmError", "exception message"),
                                           Reply(c, FALSE, "Failed to start VM")>>
                      /\ UNCHANGED <<intentQ, bootThreads>>
    /\ callQ' = Tail(callQ)
    /\ UNCHANGED <<moduleInitialized, notModule>>

\* the thread startVM starts: sleep(3000), then emit status "running"
Module_bootThread ==
    /\ bootThreads > 0
    /\ bootThreads' = bootThreads - 1
    /\ toJS' = Append(toJS, Event("vmStatus", "running"))
    /\ published' = "running"
    /\ UNCHANGED <<callQ, moduleInitialized, intentQ, notModule>>

\* stopVM(promise); startService may throw
Module_stopVM ==
    /\ callQ # <<>> /\ Head(callQ).m = "stopVM"
    /\ LET c == Head(callQ)
       IN  \/ /\ intentQ' = Append(intentQ, Intent("STOP", 0, 0))
              /\ published' = "stopped"
              /\ toJS' = toJS \o <<Event("vmStatus", "stopping"),
                                   Event("vmStatus", "stopped"),
                                   Reply(c, TRUE, "")>>
           \/ /\ toJS' = toJS \o <<Event("vmStatus", "stopping"),
                                   Reply(c, FALSE, "Failed to stop VM")>>
              /\ published' = "stopping"
              /\ UNCHANGED intentQ
    /\ callQ' = Tail(callQ)
    /\ UNCHANGED <<moduleInitialized, bootThreads, notModule>>

\* QemuManager.isRunning(): whether files/qemu/qmp.sock exists (both the
\* successful probe of port 2375 and the failed one end in `true` then)
QemuManager_isRunning == qmpSock

\* getStatus(promise)
Module_getStatus ==
    /\ callQ # <<>> /\ Head(callQ).m = "getStatus"
    /\ \/ toJS' = Append(toJS, Reply(Head(callQ), TRUE,
                                     IF QemuManager_isRunning THEN "running"
                                     ELSE "stopped"))
       \/ \* catch (Exception e)
          toJS' = Append(toJS, Reply(Head(callQ), FALSE, "Failed to get status"))
    /\ callQ' = Tail(callQ)
    /\ UNCHANGED <<moduleVars, intentQ, notModule>>

\* QemuManager.executeCommand: ssh first; when ssh throws, the serial (QMP)
\* transport, whose connectQmp never opens the socket, so that it throws
\* "QMP not connected", which executeCommand returns as its output.
executeCommand(sshWorks, output) ==
    IF sshWorks THEN output ELSE "Error: QMP not connected"

\* sendCommand(command, promise)
Module_sendCommand ==
    /\ callQ # <<>> /\ Head(callQ).m = "sendCommand"
    /\ \/ \E sshWorks \in BOOLEAN, output \in {"", "output"} :
              /\ sshWorks \/ output = ""
              /\ toJS' = toJS \o <<Event("vmLog", "$ command"),
                                   Reply(Head(callQ), TRUE,
                                         executeCommand(sshWorks, output))>>
       \/ \* catch (Exception e)
          toJS' = Append(toJS, Reply(Head(callQ), FALSE, "Failed to send command"))
    /\ callQ' = Tail(callQ)
    /\ UNCHANGED <<moduleVars, intentQ, notModule>>

\* ================================== the foreground service (QemuService.java)
notService == <<storeVars, jsVars, chanVars, moduleVars, envVars, logVars,
                auxVars>>

\* buildQemuCommand(ramMB, cpuCores): the arguments that vary with the request
\* (QemuService_buildQemuCommand below is the whole vector)
buildQemuCommand(ram, cpu) == [m |-> ram, smp |-> cpu]

\* onStartCommand(ACTION_START) -> startQemu(ramMB, cpuCores)
Service_startQemu ==
    /\ svcPc = "idle"
    /\ intentQ # <<>> /\ Head(intentQ).action = "START"
    /\ LET i == Head(intentQ)
       IN  IF isRunning
           THEN UNCHANGED <<isRunning, qemuProcess, startTime, qemuCmd, procVars>>
           ELSE \/ \* pb.start() returned a process
                   /\ qemuProcess' = TRUE
                   /\ isRunning' = TRUE
                   /\ startTime' = 1
                   /\ qemuCmd' = buildQemuCommand(i.ram, i.cpu)
                   /\ proc' = "running"
                   /\ qmpSock' = TRUE
                \/ \* pb.start() threw
                   /\ isRunning' = FALSE
                   /\ UNCHANGED <<qemuProcess, startTime, qemuCmd, procVars>>
                \/ \* pb.start() returned a process and a later statement
                   \* of the try block (startOutputReader,
                   \* updateNotification) threw
                   /\ qemuProcess' = TRUE
                   /\ isRunning' = FALSE
                   /\ startTime' = 1
                   /\ qemuCmd' = buildQemuCommand(i.ram, i.cpu)
                   /\ proc' = "running"
                   /\ qmpSock' = TRUE
    /\ intentQ' = Tail(intentQ)
    /\ UNCHANGED <<svcPc, notService>>

\* onStartCommand(ACTION_STOP) -> stopQemu(), up to qemuProcess.waitFor():
\* destroy() signals the child, which either begins to exit or ignores it
Service_stopQemu ==
    /\ svcPc = "idle"
    /\ intentQ # <<>> /\ Head(intentQ).action = "STOP"
    /\ IF ~isRunning
       THEN UNCHANGED <<svcPc, proc>>
       ELSE /\ svcPc' = "waitFor"
            /\ IF proc = "running"
               THEN proc' \in {"running", "terminating"}
               ELSE UNCHANGED proc
    /\ intentQ' = Tail(intentQ)
    /\ UNCHANGED <<isRunning, qemuProcess, startTime, qemuCmd, qmpSock, notService>>

\* stopQemu() from the return of qemuProcess.waitFor() to its end
Service_stopQemu_waitFor ==
    /\ svcPc = "waitFor"
    /\ proc = "exited"
    /\ svcPc' = "idle"
    /\ qemuProcess' = FALSE
    /\ isRunning' = FALSE
    /\ startTime' = 0
    /\ UNCHANGED <<intentQ, qemuCmd, procVars, notService>>

\* ========================================================= the child process
\* a child that was signalled by destroy() and honours it exits
Child_exit ==
    /\ proc = "terminating"
    /\ proc' = "exited"
    /\ qmpSock' \in {qmpSock, FALSE}
    /\ UNCHANGED <<svcVars, notService>>

\* the child dies without a stop request (killed from outside, or a crash)
Child_killed ==
    /\ proc = "running"
    /\ proc' = "exited"
    /\ qmpSock' \in {qmpSock, FALSE}
    /\ UNCHANGED <<svcVars, notService>>

\* ============================================================ the log buffers
\* Text is a sequence of characters; NL is the line terminator.
NL == "\n"

\* the lines the child prints, the lines written to vm.log, the messages logged
LineInputs == {<<>>, <<"a">>, <<"a", "b">>}
FileLineInputs == {<<>>, <<"c">>}
LogMessages == {"x", "y"}

Max(a, b) == IF a > b THEN a ELSE b

\* the index of the first NL of str, 0 when it has none
FirstNL(str) ==
    IF \E i \in DOMAIN str : str[i] = NL
    THEN CHOOSE i \in DOMAIN str :
             str[i] = NL /\ \A j \in 1..(i - 1) : str[j] # NL
    ELSE 0

RECURSIVE Pieces(_)
\* str cut at every NL, the piece after the last NL included
Pieces(str) ==
    LET i == FirstNL(str)
    IN  IF i = 0 THEN <<str>>
        ELSE <<SubSeq(str, 1, i - 1)>> \o Pieces(SubSeq(str, i + 1, Len(str)))

RECURSIVE DropTrailingEmpty(_)
DropTrailingEmpty(ps) ==
    IF ps # <<>> /\ ps[Len(ps)] = <<>>
    THEN DropTrailingEmpty(SubSeq(ps, 1, Len(ps) - 1))
    ELSE ps

\* String.split("\n"): trailing empty strings are removed, and a string
\* without any match, the empty string included, is returned as the one element
split(str) == IF str = <<>> THEN << <<>> >> ELSE DropTrailingEmpty(Pieces(str))

\* BufferedReader.readLine() until it returns null
readLines(str) ==
    LET ps == Pieces(str)
    IN  IF ps[Len(ps)] = <<>> THEN SubSeq(ps, 1, Len(ps) - 1) ELSE ps

RECURSIVE appendLines(_, _, _)
\* for (i = start; i < allLines.length; i++) result.append(allLines[i]).append("\n")
appendLines(allLines, i, result) ==
    IF i > Len(allLines) THEN result
    ELSE appendLines(allLines, i + 1, result \o allLines[i] \o <<NL>>)

\* QemuService.getLogs(lines)
QemuService_getLogs(buf, lines) ==
    LET allLines == split(buf)
        start == Max(0, Len(allLines) - lines)
    IN  appendLines(allLines, start + 1, <<>>)

\* QemuManager.getLogs(lines)
QemuManager_getLogs(file, lines) ==
    IF ~file.exists THEN <<"No logs available">>
    ELSE LET allLines == readLines(file.text)
             start == Max(0, Len(allLines) - lines)
         IN  appendLines(allLines, start + 1, <<>>)

\* a trim that keeps the oldest characters
trimLogBuffer_keepsOldest(buf) ==
    IF Len(buf) > LogBufferCap THEN SubSeq(buf, 1, LogBufferCap) ELSE buf

\* if (logBuffer.length() > 10000) logBuffer.delete(0, logBuffer.length() - 10000)
trimLogBuffer(buf) ==
    IF Len(buf) > LogBufferCap
    THEN SubSeq(buf, Len(buf) - LogBufferCap + 1, Len(buf))
    ELSE buf

lifecycleVars == <<vmStatus, isInitialized, error, statusInterval, vmStats,
                   ramMB, cpuCores, jsVars, chanVars, moduleVars, svcVars,
                   procVars, envVars, auxVars>>

LinesWritten == Len(readLines(captured)) + Len(readLines(vmLogFile.text))

\* the output reader thread read a line: it enters synchronized (logBuffer)
\* and appends the line and "\n"
Reader_append ==
    /\ readerPc = "read"
    /\ LinesWritten < MaxLines
    /\ \E line \in LineInputs :
           /\ logBuffer' = logBuffer \o line \o <<NL>>
           /\ captured' = captured \o line \o <<NL>>
    /\ readerPc' = "appended"
    /\ UNCHANGED <<vmLogs, vmLogFile, allLogged, lastLogs, lifecycleVars>>

\* the output reader thread trims the buffer and leaves the synchronized block
Reader_trim ==
    /\ readerPc = "appended"
    /\ logBuffer' = trimLogBuffer(logBuffer)
    /\ readerPc' = "read"
    /\ UNCHANGED <<vmLogs, captured, vmLogFile, allLogged, lastLogs, lifecycleVars>>

\* QemuService.getLogs(lines), which takes the monitor of logBuffer
Service_getLogs ==
    /\ readerPc = "read"
    /\ \E lines \in 0..MaxN :
           lastLogs' = [of |-> "QemuService", n |-> lines,
                        out |-> QemuService_getLogs(logBuffer, lines),
                        seen |-> Len(logBuffer)]
    /\ UNCHANGED <<vmLogs, logBuffer, captured, readerPc, vmLogFile, allLogged,
                   lifecycleVars>>

\* QemuManager.getLogs(lines)
Manager_getLogs ==
    /\ \E lines \in 0..MaxN :
           lastLogs' = [of |-> "QemuManager", n |-> lines,
                        out |-> QemuManager_getLogs(vmLogFile, lines),
                        seen |-> Len(vmLogFile.text)]
    /\ UNCHANGED <<vmLogs, logBuffer, captured, readerPc, vmLogFile, allLogged,
                   lifecycleVars>>

\* a line is written to files/qemu/vm.log
Env_writeVmLog ==
    /\ LinesWritten < MaxLines
    /\ \E line \in FileLineInputs :
           vmLogFile' = [exists |-> TRUE, text |-> vmLogFile.text \o line \o <<NL>>]
    /\ UNCHANGED <<vmLogs, logBuffer, captured, readerPc, allLogged, lastLogs,
                   lifecycleVars>>

\* the store's addLog(message)
Store_addLog ==
    /\ Len(allLogged) <= StoreLogCap
    /\ \E message \in LogMessages :
           /\ vmLogs' = addLog(vmLogs, message)
           /\ allLogged' = Append(allLogged, message)
    /\ UNCHANGED <<logBuffer, captured, readerPc, vmLogFile, lastLogs, lifecycleVars>>

LogNext ==
    \/ Reader_append
    \/ Reader_trim
    \/ Service_getLogs
    \/ Manager_getLogs
    \/ Env_writeVmLog
    \/ Store_addLog

\* the log buffers alone, with the lifecycle left in its initial state
LogSpec == Init /\ [][LogNext]_vars

\* ======================== QemuManager.executeCommand (src/unnamed/part_000)
\* Java strings are sequences of characters here, positions counted from 0 as
\* String.indexOf and String.substring count them.
QUOTE == "\""
BACKSLASH == "\\"
CR == "\r"

RECURSIVE Strings(_, _)
\* the strings over chars of length n or less
Strings(chars, n) ==
    IF n = 0 THEN {<<>>}
    ELSE LET shorter == Strings(chars, n - 1)
         IN  shorter \cup {Append(s, c) : s \in shorter, c \in chars}

\* what a command prints in the guest
GuestChars == {"a", QUOTE, NL}
GuestOutputs == Strings(GuestChars, MaxOut)

\* String.indexOf(str, fromIndex): -1 when str does not occur at or after it
indexOf(s, str, fromIndex) ==
    LET at == {k \in Max(fromIndex, 0)..(Len(s) - Len(str)) :
                   SubSeq(s, k + 1, k + Len(str)) = str}
    IN  IF at = {} THEN -1 ELSE CHOOSE k \in at : \A j \in at : k <= j

\* String.contains(str)
contains(s, str) == indexOf(s, str, 0) >= 0

\* what String.substring throws for indices outside the string
OutOfBounds == <<"StringIndexOutOfBoundsException">>

\* String.substring(beginIndex, endIndex)
substring(s, beginIndex, endIndex) ==
    IF beginIndex < 0 \/ endIndex > Len(s) \/ beginIndex > endIndex
    THEN OutOfBounds
    ELSE SubSeq(s, beginIndex + 1, endIndex)

RECURSIVE replace(_, _, _)
\* String.replace(target, replacement): every occurrence, from the left
replace(s, target, replacement) ==
    IF Len(s) < Len(target) THEN s
    ELSE IF SubSeq(s, 1, Len(target)) = target
         THEN replacement
              \o replace(SubSeq(s, Len(target) + 1, Len(s)), target, replacement)
         ELSE <<Head(s)>> \o replace(Tail(s), target, replacement)

\* String.trim() removes the characters up to ' ' at both ends
Blank(c) == c \in {" ", NL, CR}

RECURSIVE trim(_)
trim(s) ==
    IF s # <<>> /\ Blank(Head(s)) THEN trim(Tail(s))
    ELSE IF s # <<>> /\ Blank(s[Len(s)]) THEN trim(SubSeq(s, 1, Len(s) - 1))
    ELSE s

\* how a Java method ends: with a value, or with an exception and its message
Returned(v) == [threw |-> FALSE, val |-> v]
Thrown(message) == [threw |-> TRUE, val |-> message]

\* "return" and "return\":\""
RETURN == <<"r", "e", "t", "u", "r", "n">>
RETURN_VALUE == RETURN \o <<QUOTE, ":", QUOTE>>

RECURSIVE jsonEscape(_)
\* the guest output as it stands inside the JSON string of a reply
jsonEscape(str) ==
    IF str = <<>> THEN <<>>
    ELSE LET c == Head(str)
             e == IF c = QUOTE THEN <<BACKSLASH, QUOTE>>
                  ELSE IF c = BACKSLASH THEN <<BACKSLASH, BACKSLASH>>
                  ELSE IF c = NL THEN <<BACKSLASH, "n">>
                  ELSE IF c = CR THEN <<BACKSLASH, "r">>
                  ELSE <<c>>
         IN  e \o jsonEscape(Tail(str))

\* the reply line to a human-monitor-command that printed out, in the form
\* executeViaSerial looks for: {"return":"..."}
qmpReply(out) == <<"{", QUOTE>> \o RETURN_VALUE \o jsonEscape(out) \o <<QUOTE, "}">>

\* qmpReader.readLine() returned null
NoReply == <<"null">>

\* reply lines that carry no quoted "return" value: the empty line,
\* {"return": {}}, {"error":"a"}, a line cut after the value began, a line cut
\* right after return":", and the bare word return
OtherReplies ==
    { <<>>,
      <<"{", QUOTE>> \o RETURN \o <<QUOTE, ":", " ", "{", "}", "}">>,
      <<"{", QUOTE, "e", "r", "r", "o", "r", QUOTE, ":", QUOTE, "a", QUOTE, "}">>,
      <<"{", QUOTE>> \o RETURN_VALUE \o <<"a">>,
      <<"{", QUOTE>> \o RETURN_VALUE,
      RETURN }

Replies == {qmpReply(out) : out \in GuestOutputs} \cup OtherReplies \cup {NoReply}

\* what `ssh -p 2222 root@localhost command` met: the process could not be
\* started (pb.start() throws), or it ran, printed lines and exited with a
\* status executeViaSsh does not look at
SshOutcomes ==
    { [threw |-> TRUE, exit |-> 0, lines |-> << <<"Cannot run program">> >>],
      [threw |-> FALSE, exit |-> 0, lines |-> <<>>],
      [threw |-> FALSE, exit |-> 0, lines |-> << <<"o">> >>],
      [threw |-> FALSE, exit |-> 0, lines |-> << <<"o">>, <<"k">> >>],
      [threw |-> FALSE, exit |-> 255, lines |-> << <<"Connection refused">> >>] }

\* executeViaSsh(command)
executeViaSsh(ssh) ==
    IF ssh.threw THEN Thrown(ssh.lines[1])
    ELSE Returned(trim(appendLines(ssh.lines, 1, <<>>)))

\* the part of executeViaSerial that skips every check of the indices
parseResponse_unguarded(response) ==
    LET start == indexOf(response, RETURN_VALUE, 0) + 9
        end == indexOf(response, <<QUOTE>>, start)
    IN  IF response # NoReply /\ contains(response, RETURN)
        THEN LET text == substring(response, start, end)
             IN  IF text = OutOfBounds THEN Thrown(OutOfBounds)
                 ELSE Returned(replace(replace(text, <<BACKSLASH, "n">>, <<NL>>),
                                       <<BACKSLASH, "r">>, <<CR>>))
        ELSE Returned(IF response # NoReply THEN response ELSE <<>>)

\* the part of executeViaSerial after response = qmpReader.readLine()
parseResponse(response) ==
    LET start == indexOf(response, RETURN_VALUE, 0) + 9
        end == indexOf(response, <<QUOTE>>, start)
    IN  IF response # NoReply /\ contains(response, RETURN)
           /\ start > 8 /\ end > start
        THEN LET text == substring(response, start, end)
             IN  IF text = OutOfBounds THEN Thrown(OutOfBounds)
                 ELSE Returned(replace(replace(text, <<BACKSLASH, "n">>, <<NL>>),
                                       <<BACKSLASH, "r">>, <<CR>>))
        ELSE Returned(IF response # NoReply THEN response ELSE <<>>)

\* executeViaSerial(command). connected: qmpWriter and qmpReader are set.
\* connectQmp() opens nothing in this version of the code, so the program
\* itself only ever runs the case connected = FALSE; the case TRUE is the
\* channel the rest of the method is written for.
executeViaSerial(connected, response) ==
    IF ~connected THEN Thrown(<<"QMP not connected">>)
    ELSE parseResponse(response)

\* an executeCommand that lets the failure of the second transport escape
QemuManager_executeCommand_rethrows(ssh, connected, response) ==
    LET first == executeViaSsh(ssh)
        second == executeViaSerial(connected, response)
    IN  IF ~first.threw
        THEN [tried |-> <<"ssh">>, threw |-> FALSE, val |-> first.val]
        ELSE [tried |-> <<"ssh", "serial">>, threw |-> second.threw,
              val |-> second.val]

\* QemuManager.executeCommand(command), with the transports it tried
QemuManager_executeCommand(ssh, connected, response) ==
    LET first == executeViaSsh(ssh)
        second == executeViaSerial(connected, response)
    IN  IF ~first.threw
        THEN [tried |-> <<"ssh">>, threw |-> FALSE, val |-> first.val]
        ELSE IF ~second.threw
        THEN [tried |-> <<"ssh", "serial">>, threw |-> FALSE, val |-> second.val]
        ELSE [tried |-> <<"ssh", "serial">>, threw |-> FALSE,
              val |-> <<"Error: ">> \o second.val]

notCmd == <<storeVars, jsVars, chanVars, moduleVars, svcVars, procVars, envVars,
            logVars, lastLaunch, configVars, nativeVars>>

\* one call of QemuManager.executeCommand; serial is what executeViaSerial
\* makes of the reply, which counts when the call tried that transport
Manager_executeCommand ==
    /\ \E ssh \in SshOutcomes, connected \in BOOLEAN, response \in Replies :
           lastCmd' = [of |-> "executeCommand", ssh |-> ssh,
                       connected |-> connected, response |-> response,
                       serial |-> executeViaSerial(connected, response),
                       ret |-> QemuManager_executeCommand(ssh, connected,
                                                          response)]
    /\ UNCHANGED notCmd

\* the command transports alone, with the lifecycle left in its initial state
CmdSpec == Init /\ [][Manager_executeCommand]_vars

\* ============================================ the launch argument vectors
\* An argument is a sequence of pieces: the characters of a number, or the
\* parts a string is concatenated from; a -netdev value is its "user,id=net0"
\* and then one piece for each hostfwd entry.
DIGITS == <<"0", "1", "2", "3", "4", "5", "6", "7", "8", "9">>

RECURSIVE valueOf(_)
\* String.valueOf(int) and snprintf("%d") of a number that is not negative
valueOf(n) ==
    IF n < 10 THEN <<DIGITS[n + 1]>>
    ELSE valueOf(n \div 10) \o <<DIGITS[(n % 10) + 1]>>

\* the RAM sizes and CPU counts a launch is asked for
RamInputs == {0, MIN_RAM_MB, 1024, DEFAULT_RAM_MB, 4096, MAX_RAM_MB}
CpuInputs == 0..(MAX_CPU_CORES + 1)

\* QemuServiceClass.getConfig().forwardedPorts
forwardedPorts ==
    << [name |-> "docker", port |-> 2375], [name |-> "ssh", port |-> 2222],
       [name |-> "http", port |-> 8080], [name |-> "https", port |-> 8443] >>

\* QemuService.buildQemuCommand(ramMB, cpuCores), every argument of it;
\* bundled: libqemu-system-x86_64.so exists in the native library directory
QemuService_buildQemuCommand(ramMB_, cpuCores_, bundled) ==
    << <<IF bundled THEN "nativeLibraryDir/libqemu-system-x86_64.so"
         ELSE "/system/bin/qemu-system-x86_64">>,
       <<"-machine">>, <<"q35,accel=tcg">>,
       <<"-cpu">>, <<"max">>,
       <<"-smp">>, valueOf(cpuCores_),
       <<"-m">>, valueOf(ramMB_),
       <<"-display">>, <<"none">>,
       <<"-serial">>, <<"stdio">>,
       <<"-drive">>,
       <<"file=", "files/qemu/alpine-disk.qcow2", ",if=virtio,format=qcow2">>,
       <<"-cdrom">>, <<"files/qemu/alpine-virt.iso">>,
       <<"-netdev">>,
       <<"user,id=net0", "hostfwd=tcp::2375-:2375", "hostfwd=tcp::2222-:22",
         "hostfwd=tcp::8080-:8080", "hostfwd=tcp::8443-:443">>,
       <<"-device">>, <<"virtio-net-pci,netdev=net0">>,
       <<"-qmp">>, <<"unix:", "files/qemu/qmp.sock", ",server,nowait">>,
       <<"-daemonize">> >>

\* the QemuState nativeInit leaves behind: calloc zeroes ram_mb and cpu_cores
\* and nothing assigns them afterwards
QemuState == [ram_mb |-> 0, cpu_cores |-> 0]

\* the execl of nativeStart's child branch
nativeStart_execl(state) ==
    << <<"qemu-system-x86_64">>,
       <<"-machine">>, <<"q35,accel=tcg">>,
       <<"-cpu">>, <<"max">>,
       <<"-m">>, valueOf(IF state.ram_mb > 0 THEN state.ram_mb ELSE 2048),
       <<"-smp">>, valueOf(IF state.cpu_cores > 0 THEN state.cpu_cores ELSE 2),
       <<"-display">>, <<"none">>,
       <<"-serial">>, <<"stdio">>,
       <<"-drive">>, <<"data_dir/alpine-disk.qcow2">>,
       <<"-cdrom">>, <<"data_dir/alpine-virt.iso">>,
       <<"-netdev">>,
       <<"user,id=net0", "hostfwd=tcp::2375-:2375", "hostfwd=tcp::2222-:22",
         "hostfwd=tcp::8080-:8080">>,
       <<"-device">>, <<"virtio-net-pci,netdev=net0">> >>

notLaunch == <<storeVars, jsVars, chanVars, moduleVars, svcVars, procVars,
               envVars, logVars, lastCmd, configVars, nativeVars>>

\* QemuService.startQemu builds the command of a launch
Launch_startQemu ==
    /\ \E r \in RamInputs, c \in CpuInputs, bundled \in BOOLEAN :
           lastLaunch' = [by |-> "QemuService.startQemu", ram |-> r, cpu |-> c,
                          argv |-> QemuService_buildQemuCommand(r, c, bundled)]
    /\ UNCHANGED notLaunch

\* nativeStart forks and its child calls execl, for a launch asked with r and c
Launch_nativeStart ==
    /\ \E r \in RamInputs, c \in CpuInputs :
           lastLaunch' = [by |-> "nativeStart", ram |-> r, cpu |-> c,
                          argv |-> nativeStart_execl(QemuState)]
    /\ UNCHANGED notLaunch

LaunchNext ==
    \/ Launch_startQemu
    \/ Launch_nativeStart

\* the two launchers alone, with the lifecycle left in its initial state
LaunchSpec == Init /\ [][LaunchNext]_vars

\* =============================== the stored VM settings (RAM and CPU count)
\* AsyncStorage.getItem(key) of a key never written
NoItem == <<"null">>

\* the values setRamMB / setVmRam and setCpuCores / setVmCpu are called with
RamWrites == {100, MIN_RAM_MB, 9000}
CpuWrites == {0, MAX_CPU_CORES, 9}

\* Number.prototype.toString of a whole number that is not negative
toString(value) == valueOf(value)

RECURSIVE parseFloat(_)
\* parseFloat of a string of decimal digits
parseFloat(str) ==
    IF str = <<>> THEN 0
    ELSE 10 * parseFloat(SubSeq(str, 1, Len(str) - 1))
         + (CHOOSE d \in 0..9 : DIGITS[d + 1] = str[Len(str)])

\* StorageService.getNumber(key, defaultValue), item being what getItem gave
getNumber(item, defaultValue) ==
    IF item = NoItem THEN defaultValue ELSE parseFloat(item)

notConfig == <<vmStatus, isInitialized, error, statusInterval, vmLogs, vmStats,
               jsVars, chanVars, moduleVars, svcVars, procVars, envVars,
               logVars, lastCmd, lastLaunch, nativeVars>>

\* useQemuStore.loadSettings up to its second await: getVmRam has resolved
Store_loadSettings ==
    /\ loading.pc = "idle"
    /\ loading' = [pc |-> "getVmCpu",
                   ramMB |-> getNumber(asyncStorage.VM_RAM, DEFAULT_RAM_MB)]
    /\ UNCHANGED <<ramMB, cpuCores, asyncStorage, settling, notConfig>>

\* loadSettings after getVmCpu resolved: set({ ramMB, cpuCores })
Store_loadSettings_resume ==
    /\ loading.pc = "getVmCpu"
    /\ ramMB' = loading.ramMB
    /\ cpuCores' = getNumber(asyncStorage.VM_CPU, DEFAULT_CPU_CORES)
    /\ loading' = [pc |-> "idle", ramMB |-> 0]
    /\ UNCHANGED <<asyncStorage, settling, notConfig>>

\* useQemuStore.setRamMB(ram) up to its await
Store_setRamMB(ram) ==
    /\ Len(settling) < MaxQueue
    /\ IF ram >= MIN_RAM_MB /\ ram <= MAX_RAM_MB
       THEN /\ asyncStorage' = [asyncStorage EXCEPT !.VM_RAM = toString(ram)]
            /\ settling' = Append(settling, [field |-> "ramMB", value |-> ram])
       ELSE UNCHANGED <<asyncStorage, settling>>
    /\ UNCHANGED <<ramMB, cpuCores, loading, notConfig>>

\* useQemuStore.setCpuCores(cores) up to its await
Store_setCpuCores(cores) ==
    /\ Len(settling) < MaxQueue
    /\ IF cores >= MIN_CPU_CORES /\ cores <= MAX_CPU_CORES
       THEN /\ asyncStorage' = [asyncStorage EXCEPT !.VM_CPU = toString(cores)]
            /\ settling' = Append(settling,
                                  [field |-> "cpuCores", value |-> cores])
       ELSE UNCHANGED <<asyncStorage, settling>>
    /\ UNCHANGED <<ramMB, cpuCores, loading, notConfig>>

\* setRamMB / setCpuCores after the await: set({ ramMB: ram }) or
\* set({ cpuCores: cores })
Store_setConfig_resume ==
    /\ settling # <<>>
    /\ LET w == Head(settling)
       IN  /\ ramMB' = IF w.field = "ramMB" THEN w.value ELSE ramMB
           /\ cpuCores' = IF w.field = "cpuCores" THEN w.value ELSE cpuCores
    /\ settling' = Tail(settling)
    /\ UNCHANGED <<asyncStorage, loading, notConfig>>

\* useSettingsStore.setVmRam(ram)
Settings_setVmRam(ram) ==
    /\ asyncStorage' = [asyncStorage EXCEPT !.VM_RAM = toString(ram)]
    /\ UNCHANGED <<ramMB, cpuCores, loading, settling, notConfig>>

\* useSettingsStore.setVmCpu(cpu)
Settings_setVmCpu(cpu) ==
    /\ asyncStorage' = [asyncStorage EXCEPT !.VM_CPU = toString(cpu)]
    /\ UNCHANGED <<ramMB, cpuCores, loading, settling, notConfig>>

ConfigNext ==
    \/ Store_loadSettings
    \/ Store_loadSettings_resume
    \/ \E ram \in RamWrites : Store_setRamMB(ram)
    \/ \E cores \in CpuWrites : Store_setCpuCores(cores)
    \/ Store_setConfig_resume
    \/ \E ram \in RamWrites : Settings_setVmRam(ram)
    \/ \E cpu \in CpuWrites : Settings_setVmCpu(cpu)

\* the stored settings alone, with the lifecycle left in its initial state
ConfigSpec == Init /\ [][ConfigNext]_vars

\* ===================================== the native wrapper (qemu_jni.c)
\* nativeStop and nativeGetStatus run on whatever threads call them and take
\* no lock; each read or write of *state is a step of its own. A child is
\* "running", "zombie" (exited, not yet waited for) or "reaped"; "none" is a
\* pid not yet given out.
Pids == 1..MaxOps
SIGTERM == "SIGTERM"
SIGKILL == "SIGKILL"

\* waitpid(pid, &status, WNOHANG): its result and the children afterwards.
\* A pid of -1 (or 0) waits for any child.
waitpid(pid) ==
    IF pid > 0
    THEN IF pid \in Pids /\ children[pid] = "zombie"
         THEN [result |-> pid, children |-> [children EXCEPT ![pid] = "reaped"]]
         ELSE IF pid \in Pids /\ children[pid] = "running"
         THEN [result |-> 0, children |-> children]
         ELSE [result |-> -1, children |-> children]
    ELSE IF \E p \in Pids : children[p] = "zombie"
         THEN LET z == CHOOSE p \in Pids : children[p] = "zombie"
              IN  [result |-> z, children |-> [children EXCEPT ![z] = "reaped"]]
         ELSE IF otherChild \/ \E p \in Pids : children[p] = "running"
         THEN [result |-> 0, children |-> children]
         ELSE [result |-> -1, children |-> children]

\* kill(pid, sig): SIGKILL ends the child at once; SIGTERM asks it to exit,
\* which it does whenever it does (NativeChild_exit). A pid of -1 signals
\* every process the caller may signal.
kill(pid, sig) ==
    IF sig # SIGKILL THEN children
    ELSE [p \in Pids |->
              IF children[p] = "running" /\ (pid = p \/ pid = -1)
              THEN "zombie" ELSE children[p]]

notNative == <<storeVars, jsVars, chanVars, moduleVars, svcVars, procVars,
               logVars, lastCmd, lastLaunch, configVars, raced>>

\* nativeStart: fork, and in the parent state->pid = pid, state->running = 1
Native_start ==
    /\ ops < MaxOps
    /\ qemu_state.running = 0
    /\ LET pid == ops + 1
       IN  /\ children' = [children EXCEPT ![pid] = "running"]
           /\ qemu_state' = [pid |-> pid, running |-> 1]
           /\ started' = started \cup {pid}
    /\ ops' = ops + 1
    /\ UNCHANGED <<otherChild, stopT, statusT, lastSys, notNative>>

\* nativeStop is called: if (!state->running || state->pid <= 0) return 0
NativeStop_call ==
    /\ stopT.pc = "idle"
    /\ stopT' = [stopT EXCEPT !.pc = IF qemu_state.running = 0
                                        \/ qemu_state.pid <= 0
                                     THEN "idle" ELSE "SIGTERM",
                              !.wait_count = 0]
    /\ lastSys' = [by |-> "nativeStop", fn |-> "called", pid |-> qemu_state.pid]
    /\ UNCHANGED <<qemu_state, children, otherChild, statusT, started, ops,
                   notNative>>

\* kill(state->pid, SIGTERM)
NativeStop_kill ==
    /\ stopT.pc = "SIGTERM"
    /\ children' = kill(qemu_state.pid, SIGTERM)
    /\ lastSys' = [by |-> "nativeStop", fn |-> "kill", pid |-> qemu_state.pid]
    /\ stopT' = [stopT EXCEPT !.pc = "loop"]
    /\ UNCHANGED <<qemu_state, otherChild, statusT, started, ops, notNative>>

\* while (wait_count < 50): result = waitpid(state->pid, &status, WNOHANG);
\* after the loop, if (wait_count >= 50) the forced kill, else the reset
NativeStop_waitpid ==
    /\ stopT.pc = "loop"
    /\ IF stopT.wait_count < MaxPolls
       THEN LET w == waitpid(qemu_state.pid)
            IN  /\ children' = w.children
                /\ stopT' = [stopT EXCEPT !.pc = "result", !.result = w.result]
                /\ lastSys' = [by |-> "nativeStop", fn |-> "waitpid",
                               pid |-> qemu_state.pid]
       ELSE /\ stopT' = [stopT EXCEPT !.pc = "SIGKILL"]
            /\ UNCHANGED <<children, lastSys>>
    /\ UNCHANGED <<qemu_state, otherChild, statusT, started, ops, notNative>>

\* if (result == state->pid) break; if (result < 0) break;
\* usleep(100000); wait_count++
NativeStop_result ==
    /\ stopT.pc = "result"
    /\ stopT' = IF stopT.result = qemu_state.pid \/ stopT.result < 0
                THEN [stopT EXCEPT !.pc = "reset"]
                ELSE [stopT EXCEPT !.pc = "loop", !.wait_count = @ + 1]
    /\ UNCHANGED <<qemu_state, children, otherChild, statusT, lastSys, started,
                   ops, notNative>>

\* kill(state->pid, SIGKILL)
NativeStop_forceKill ==
    /\ stopT.pc = "SIGKILL"
    /\ children' = kill(qemu_state.pid, SIGKILL)
    /\ otherChild' = IF qemu_state.pid = -1 THEN FALSE ELSE otherChild
    /\ lastSys' = [by |-> "nativeStop", fn |-> "kill", pid |-> qemu_state.pid]
    /\ stopT' = [stopT EXCEPT !.pc = "waitpid"]
    /\ UNCHANGED <<qemu_state, statusT, started, ops, notNative>>

\* waitpid(state->pid, &status, 0), which returns once a child can be waited
\* for or there is none
NativeStop_forceWait ==
    /\ stopT.pc = "waitpid"
    /\ LET w == waitpid(qemu_state.pid)
       IN  /\ w.result # 0
           /\ children' = w.children
    /\ lastSys' = [by |-> "nativeStop", fn |-> "waitpid", pid |-> qemu_state.pid]
    /\ stopT' = [stopT EXCEPT !.pc = "reset"]
    /\ UNCHANGED <<qemu_state, otherChild, statusT, started, ops, notNative>>

\* state->running = 0; state->pid = -1; state->start_time = 0; return 0
NativeStop_reset ==
    /\ stopT.pc = "reset"
    /\ qemu_state' = [pid |-> -1, running |-> 0]
    /\ stopT' = [pc |-> "idle", wait_count |-> 0, result |-> 0]
    /\ UNCHANGED <<children, otherChild, statusT, lastSys, started, ops,
                   notNative>>

\* nativeGetStatus is called: if (!state->running || state->pid <= 0) return 0
NativeGetStatus_call ==
    /\ statusT.pc = "idle"
    /\ statusT' = [statusT EXCEPT !.pc = IF qemu_state.running = 0
                                            \/ qemu_state.pid <= 0
                                         THEN "idle" ELSE "waitpid"]
    /\ lastSys' = [by |-> "nativeGetStatus", fn |-> "called",
                   pid |-> qemu_state.pid]
    /\ UNCHANGED <<qemu_state, children, otherChild, stopT, started, ops,
                   notNative>>

\* result = waitpid(state->pid, &status, WNOHANG)
NativeGetStatus_waitpid ==
    /\ statusT.pc = "waitpid"
    /\ LET w == waitpid(qemu_state.pid)
       IN  /\ children' = w.children
           /\ statusT' = [pc |-> "result", result |-> w.result]
    /\ lastSys' = [by |-> "nativeGetStatus", fn |-> "waitpid",
                   pid |-> qemu_state.pid]
    /\ UNCHANGED <<qemu_state, otherChild, stopT, started, ops, notNative>>

\* if (result == state->pid) or if (result < 0): state->running = 0;
\* state->pid = -1; return 0. Otherwise return 1.
NativeGetStatus_result ==
    /\ statusT.pc = "result"
    /\ qemu_state' = IF statusT.result = qemu_state.pid \/ statusT.result < 0
                     THEN [pid |-> -1, running |-> 0]
                     ELSE qemu_state
    /\ statusT' = [pc |-> "idle", result |-> 0]
    /\ UNCHANGED <<children, otherChild, stopT, lastSys, started, ops,
                   notNative>>

\* the QEMU child exits, on a signal it handles or by itself
NativeChild_exit ==
    /\ \E p \in Pids :
           /\ children[p] = "running"
           /\ children' = [children EXCEPT ![p] = "zombie"]
    /\ UNCHANGED <<qemu_state, otherChild, stopT, statusT, lastSys, started,
                   ops, notNative>>

\* the app starts another child process (the ssh of executeViaSsh)
NativeEnv_otherChild ==
    /\ ~otherChild
    /\ otherChild' = TRUE
    /\ UNCHANGED <<qemu_state, children, stopT, statusT, lastSys, started, ops,
                   notNative>>

NativeNext ==
    \/ Native_start
    \/ NativeStop_call
    \/ NativeStop_kill
    \/ NativeStop_waitpid
    \/ NativeStop_result
    \/ NativeStop_forceKill
    \/ NativeStop_forceWait
    \/ NativeStop_reset
    \/ NativeGetStatus_call
    \/ NativeGetStatus_waitpid
    \/ NativeGetStatus_result
    \/ NativeChild_exit
    \/ NativeEnv_otherChild

\* the native wrapper alone, with the lifecycle left in its initial state
NativeSpec == Init /\ [][NativeNext]_vars

\* ================================================================= the system
Next ==
    \/ Store_initialize
    \/ \E in \in StartInputs : Store_startVM(in[1], in[2])
    \/ Store_stopVM
    \/ Store_sendCommand
    \/ Store_restartVM
    \/ Store_clearLogs
    \/ QemuService_restartVM
    \/ JS_timeout
    \/ JS_pollTick
    \/ JS_deliver
    \/ Module_initialize
    \/ Module_startVM
    \/ Module_bootThread
    \/ Module_stopVM
    \/ Module_getStatus
    \/ Module_sendCommand
    \/ Service_startQemu
    \/ Service_stopQemu
    \/ Service_stopQemu_waitFor
    \/ Child_exit
    \/ Child_killed

Spec == Init /\ [][Next]_vars

\* The threads and timers of the program keep running: every queued call,
\* message and intent is eventually handled, a sleeping boot thread wakes, the
\* poll timer fires, and a child that honours the termination signal exits.
\* Nothing obliges a screen to request an operation or the child to die.
FairSpec ==
    /\ Spec
    /\ WF_vars(JS_deliver)
    /\ WF_vars(JS_pollTick)
    /\ WF_vars(JS_timeout)
    /\ WF_vars(Module_initialize)
    /\ WF_vars(Module_startVM)
    /\ WF_vars(Module_bootThread)
    /\ WF_vars(Module_stopVM)
    /\ WF_vars(Module_getStatus)
    /\ WF_vars(Module_sendCommand)
    /\ WF_vars(Service_startQemu)
    /\ WF_vars(Service_stopQemu)
    /\ WF_vars(Service_stopQemu_waitFor)
    /\ WF_vars(Child_exit)

\* ===================================================================== claims
\* the JS thread resumes the async function that awaited bridge method m
Resumes(m) ==
    /\ toJS # <<>>
    /\ Head(toJS).t = "reply"
    /\ Head(toJS).m = m
    /\ Head(toJS).by # SvcRestart
    /\ toJS' = Tail(toJS)

ValidConfig(ram, cpu) ==
    /\ ram >= MIN_RAM_MB /\ ram <= MAX_RAM_MB
    /\ cpu >= MIN_CPU_CORES /\ cpu <= MAX_CPU_CORES

\* C1 (as claimed): a startVM requested while the phase is `starting` is
\* rejected as busy: it hands no further launch call to the bridge and leaves
\* the phase and the log as they were.
C1_StartWhileStartingRejected ==
    [][(vmStatus = STARTING /\ \E in \in StartInputs : Store_startVM(in[1], in[2]))
         => UNCHANGED <<vmStatus, vmLogs, callQ>>]_vars

\* C2 (as claimed): when a stop was requested while a startVM was in flight,
\* the phase is never taken from `stopped`, where the completed stop left it,
\* to `running` with a polling timer by the resumption of that earlier startVM.
C2_StopNotOvertakenByStart ==
    [][~(raced /\ vmStatus = STOPPED /\ Resumes("startVM")
         /\ vmStatus' = RUNNING /\ statusInterval' # 0)]_vars

\* C3 (as claimed): a status poll that reports the VM gone, delivered while the
\* child process is dead and the phase is `running`, moves the phase away
\* from `running`.
C3_PollReconcilesDeadProcess ==
    [][(/\ proc = "exited" /\ vmStatus = RUNNING
        /\ Resumes("getStatus") /\ Head(toJS).st = "stopped")
         => vmStatus' # RUNNING]_vars

\* C4 (as claimed): when stopVM returns or throws, the phase it set to
\* `stopping` has become `stopped` or `error`.
C4_StopLeavesStopping ==
    [][(vmStatus = STOPPING /\ Resumes("stopVM"))
         => vmStatus' \in {STOPPED, ERROR}]_vars

\* C5 (as claimed): no stop path waits without bound: a stopQemu that is
\* waiting for the child to exit always comes to its end.
C5_StopWaitIsBounded == (svcPc = "waitFor") ~> (svcPc = "idle")

\* C6 (as claimed): stopVM requested while the phase is `stopped` is a no-op:
\* the phase does not pass through `stopping`, nothing is logged, no listener
\* is removed and nothing is handed to the bridge.
C6_StopWhenStoppedIsNoOp ==
    [][(vmStatus = STOPPED /\ Store_stopVM)
         => UNCHANGED <<vmStatus, vmLogs, listeners, callQ>>]_vars

\* C7 (as claimed): no child process is spawned for a RAM size outside
\* [512, 8192] or a CPU count outside [1, 8].
C7_NoSpawnWithInvalidConfig ==
    proc # "none" => ValidConfig(qemuCmd.m, qemuCmd.smp)

\* C8 (as claimed): sendCommand requested while the phase is not `running`
\* answers "not running" itself: it hands no command to the bridge, whose
\* sendCommand would run it over the remote shell or the control channel.
C8_SendCommandOnlyWhileRunning ==
    [][(vmStatus # RUNNING /\ Store_sendCommand) => callQ' = callQ]_vars

\* C9 (as claimed): on the bridge's status stream `running` never directly
\* follows `stopped`: every start publishes `starting` first, so a `running`
\* right after `stopped` belongs to no start requested since that stop.
C9_NoRunningAfterStopped ==
    [][~(published = "stopped" /\ published' = "running")]_vars

\* C10: the phase becomes `running` only by the resumption of a startVM whose
\* launch call succeeded; when the launch call failed, that resumption sets
\* the phase to `error` with the failure's message and registers no polling
\* timer and no event listener.
C10_RunningOnlyAfterLaunchSuccess ==
    [][/\ (vmStatus # RUNNING /\ vmStatus' = RUNNING)
            => (Resumes("startVM") /\ Head(toJS).ok)
       /\ (Resumes("startVM") /\ ~Head(toJS).ok)
            => /\ vmStatus' = ERROR
               /\ error' = Head(toJS).st
               /\ UNCHANGED <<timers, statusInterval, listeners>>]_vars

\* a failed launch has been handled: phase `error`, its message recorded
C10_Witness ==
    /\ vmStatus = ERROR
    /\ error = "Failed to start VM"
    /\ vmLogs # <<>> /\ vmLogs[Len(vmLogs)] = "VM start failed"
    /\ timers = {} /\ listeners["vmStatus"] = 0

\* C11: no launch before a successful initialization. The bridge's startVM,
\* called while the bridge is not initialized, only rejects with "QEMU not
\* initialized": no status event, no intent to the service, no boot thread.
\* A store startVM whose own initialize failed hands no call to the bridge and
\* leaves the phase `error`. Every launch call of the store and every START
\* intent is issued with the initialization completed.
C11_NoLaunchBeforeInitialized ==
    [][/\ (Module_startVM /\ ~moduleInitialized)
            => /\ toJS' = Append(toJS, Reply(Head(callQ), FALSE,
                                             "QEMU not initialized"))
               /\ UNCHANGED <<intentQ, bootThreads, published>>
       /\ (Resumes("initialize") /\ Head(toJS).by # "initialize"
              /\ ~Head(toJS).ok)
            => (callQ' = callQ /\ vmStatus' = ERROR)
       /\ (/\ Len(callQ') > Len(callQ)
           /\ callQ'[Len(callQ')].m = "startVM"
           /\ callQ'[Len(callQ')].by # SvcRestart)
            => (isInitialized' /\ moduleInitialized)
       /\ (Len(intentQ') > Len(intentQ) /\ intentQ'[Len(intentQ')].action = "START")
            => moduleInitialized]_vars

\* the bridge has rejected a startVM made before any initialization, and a
\* store startVM has ended in `error` on its failed initialize
C11_Witness ==
    /\ ~moduleInitialized /\ ~isInitialized
    /\ vmStatus = ERROR /\ error = "Failed to initialize QEMU"
    /\ callQ = <<>>
    /\ proc = "none"
    /\ \E i \in DOMAIN toJS :
           toJS[i].m = "startVM" /\ toJS[i].st = "QEMU not initialized"

\* C12 (as claimed): the phase enters `initializing` only from `stopped` or
\* `error`; an initialize made while the phase is `running`, `starting` or
\* `stopping` leaves the phase alone.
C12_InitializingOnlyFromStoppedOrError ==
    [][(vmStatus # INITIALIZING /\ vmStatus' = INITIALIZING)
         => vmStatus \in {STOPPED, ERROR}]_vars

\* C13 (as claimed): the phase leaves `error` only by a start or initialize
\* request, which takes it to `starting` or `initializing` and clears the
\* recorded error; a stop request or a `stopped` status event does not.
C13_ErrorLeftOnlyByStart ==
    [][(vmStatus = ERROR /\ vmStatus' # ERROR)
         => (vmStatus' \in {INITIALIZING, STARTING} /\ error' = NoError)]_vars

\* C14 (as claimed): a restart waits its settle delay of 2 seconds only after
\* its stop has succeeded, issues nothing when its stop failed, and issues its
\* start only when that delay has elapsed.
C14_RestartStopsSettlesStarts ==
    [][/\ Len(delays') > Len(delays)
            => /\ toJS # <<>> /\ Head(toJS).t = "reply"
               /\ Head(toJS).m = "stopVM" /\ Head(toJS).ok
               /\ delays'[Len(delays')].ms = 2000
       /\ (/\ toJS # <<>> /\ Head(toJS).t = "reply" /\ Head(toJS).m = "stopVM"
           /\ Head(toJS).by \in {"restartVM", SvcRestart} /\ ~Head(toJS).ok
           /\ toJS' = Tail(toJS))
            => (delays' = delays /\ callQ' = callQ)
       /\ (/\ Len(callQ') > Len(callQ)
           /\ callQ'[Len(callQ')].by \in {"restartVM", SvcRestart}
           /\ callQ'[Len(callQ')].m # "stopVM")
            => \/ Len(delays') < Len(delays)
               \/ (Resumes("initialize") /\ Head(toJS).ok)]_vars

\* C15 (as claimed): whenever the phase is `stopping`, `stopped` or `error`,
\* no status polling timer is alive.
C15_NoTimerOutsideRunning ==
    vmStatus \in {STOPPING, STOPPED, ERROR} => (timers = {} /\ statusInterval = 0)

\* C20 (as claimed): a sendCommand whose command could be delivered over
\* neither transport is never settled as a success carrying the error text.
C20_UndeliveredCommandIsRejected ==
    \A i \in DOMAIN toJS :
        (/\ toJS[i].t = "reply" /\ toJS[i].m = "sendCommand"
         /\ toJS[i].st = executeCommand(FALSE, ""))
          => ~toJS[i].ok

\* new is old after one or more addLog calls: what is left of old leads new,
\* and old entries are missing only when new is at its cap
Appended(old, new) ==
    \E k \in 0..Len(old) :
        /\ Len(new) > Len(old) - k
        /\ SubSeq(new, 1, Len(old) - k) = SubSeq(old, k + 1, Len(old))
        /\ k > 0 => Len(new) = StoreLogCap

\* C18: the store's log list changes only by appends with cap eviction or by
\* an explicit clearLogs; the completion of a stop, with its stopStatusPolling
\* and removeAllListeners, only appends to it.
C18_LogsSurviveStop ==
    [][/\ vmLogs' # vmLogs => (Store_clearLogs \/ Appended(vmLogs, vmLogs'))
       /\ (Resumes("stopVM") /\ Head(toJS).ok)
            => (Appended(vmLogs, vmLogs') /\ listeners'["vmLog"] = 0
                /\ statusInterval' = 0)]_vars

\* a started VM has been stopped, its listeners and polling timer are gone,
\* and the lines its status listener logged during the stop are still in
\* the list
C18_Witness ==
    /\ vmStatus = STOPPED
    /\ proc # "none"
    /\ listeners["vmStatus"] = 0 /\ statusInterval = 0
    /\ vmLogs = <<"VM Status", "VM Status", "VM stopped successfully">>

Min(a, b) == IF a < b THEN a ELSE b

\* the last k elements of seq
Suffix(seq, k) == SubSeq(seq, Len(seq) - k + 1, Len(seq))

\* the last n elements of seq, or all of them when it has fewer
LastN(seq, n) == Suffix(seq, Min(n, Len(seq)))

\* C16: outside the reader's synchronized block the native log buffer is
\* within its cap and is exactly the most recent characters of all the output
\* appended, in order; a getLogs never saw it over its cap; the store's log
\* list is within its cap and is exactly the most recent messages logged.
C16_LogBuffersKeepNewest ==
    /\ readerPc = "read"
         => /\ Len(logBuffer) <= LogBufferCap
            /\ logBuffer = LastN(captured, LogBufferCap)
    /\ lastLogs.of = "QemuService" => lastLogs.seen <= LogBufferCap
    /\ Len(vmLogs) <= StoreLogCap
    /\ vmLogs = LastN(allLogged, StoreLogCap)

\* both buffers have evicted their oldest content, and a getLogs has read the
\* native buffer at its cap
C16_Witness ==
    /\ readerPc = "read"
    /\ Len(captured) > LogBufferCap /\ Len(logBuffer) = LogBufferCap
    /\ Len(allLogged) > StoreLogCap /\ Len(vmLogs) = StoreLogCap
    /\ lastLogs.of = "QemuService" /\ lastLogs.seen = LogBufferCap

\* C17 (as claimed): getLogs(n) returns the last n lines of the buffer (all of
\* them when it holds fewer), in their order, and leaves the buffer as it was;
\* for QemuService.getLogs the buffer is logBuffer, for QemuManager.getLogs
\* the file vm.log once it exists.
C17_GetLogsReturnsLastLines ==
    [][/\ Service_getLogs
            => /\ readLines(lastLogs'.out) = LastN(readLines(logBuffer), lastLogs'.n)
               /\ logBuffer' = logBuffer
       /\ (Manager_getLogs /\ vmLogFile.exists)
            => /\ readLines(lastLogs'.out)
                    = LastN(readLines(vmLogFile.text), lastLogs'.n)
               /\ vmLogFile' = vmLogFile]_vars

\* C21: executeCommand tries its transports in one order, ssh and then the
\* serial channel, and the serial channel only when ssh threw; it returns the
\* output of the first transport that did not throw; when the control socket
\* cannot be connected the call returns the error value
\* "Error: QMP not connected"; no exception leaves executeCommand.
C21_TransportsTriedInOrder ==
    lastCmd.of = "executeCommand" =>
        LET ret == lastCmd.ret
        IN  /\ ~ret.threw
            /\ ret.tried = IF lastCmd.ssh.threw THEN <<"ssh", "serial">>
                           ELSE <<"ssh">>
            /\ ~lastCmd.ssh.threw => ret.val = executeViaSsh(lastCmd.ssh).val
            /\ lastCmd.ssh.threw /\ ~lastCmd.serial.threw
                   => ret.val = lastCmd.serial.val
            /\ lastCmd.ssh.threw /\ ~lastCmd.connected
                   => ret.val = <<"Error: ", "QMP not connected">>

\* ssh could not be started and the control socket is not connected
C21_Witness ==
    /\ lastCmd.of = "executeCommand"
    /\ lastCmd.ssh.threw
    /\ ~lastCmd.connected
    /\ lastCmd.ret.tried = <<"ssh", "serial">>
    /\ lastCmd.ret.val = <<"Error: ", "QMP not connected">>

C23_ParsingNeverFails ==
    (/\ lastCmd.of = "executeCommand"
     /\ lastCmd.ret.tried = <<"ssh", "serial">>
     /\ lastCmd.connected) =>
        LET r == lastCmd.response
            got == lastCmd.serial
        IN  /\ ~got.threw
            /\ \/ got.val = (IF r = NoReply THEN <<>> ELSE r)
               \/ \E i \in 1..Len(r), j \in 1..Len(r) :
                      /\ i + 8 <= Len(r)
                      /\ SubSeq(r, i, i + 8) = RETURN_VALUE
                      /\ \A h \in 1..(i - 1) :
                             SubSeq(r, h, h + 8) # RETURN_VALUE
                      /\ j > i + 8
                      /\ r[j] = QUOTE
                      /\ \A k \in (i + 9)..(j - 1) : r[k] # QUOTE
                      /\ got.val = replace(replace(SubSeq(r, i + 9, j - 1),
                                                   <<BACKSLASH, "n">>, <<NL>>),
                                           <<BACKSLASH, "r">>, <<CR>>)

\* a reply whose value holds an escaped newline was parsed
C23_Witness ==
    /\ lastCmd.of = "executeCommand"
    /\ lastCmd.ret.tried = <<"ssh", "serial">>
    /\ lastCmd.connected
    /\ lastCmd.response = qmpReply(<<"a", NL>>)
    /\ lastCmd.serial = Returned(<<"a", NL>>)

\* how often flag stands in argv, and the argument that follows it
Count(argv, flag) == Cardinality({i \in DOMAIN argv : argv[i] = <<flag>>})
ArgOf(argv, flag) == argv[(CHOOSE i \in DOMAIN argv : argv[i] = <<flag>>) + 1]

RECURSIVE ParseInt(_)
\* the number a sequence of decimal digits stands for
ParseInt(ds) ==
    IF ds = <<>> THEN 0
    ELSE 10 * ParseInt(SubSeq(ds, 1, Len(ds) - 1))
         + (CHOOSE d \in 0..9 : DIGITS[d + 1] = ds[Len(ds)])

\* the hostfwd entry of a configured rule
ForwardOf(rule) ==
    CASE rule.name = "docker" -> "hostfwd=tcp::2375-:2375"
      [] rule.name = "ssh" -> "hostfwd=tcp::2222-:22"
      [] rule.name = "http" -> "hostfwd=tcp::8080-:8080"
      [] rule.name = "https" -> "hostfwd=tcp::8443-:443"

\* the vector of launch l has each required flag once and with its value
RequiredFlagsOnce(l) ==
    /\ \A flag \in {"-machine", "-smp", "-m", "-display", "-drive", "-cdrom",
                    "-netdev", "-device", "-qmp"} : Count(l.argv, flag) = 1
    /\ ParseInt(ArgOf(l.argv, "-smp")) = l.cpu
    /\ ParseInt(ArgOf(l.argv, "-m")) = l.ram
    /\ ArgOf(l.argv, "-display") = <<"none">>
    /\ LET netdev == ArgOf(l.argv, "-netdev")
       IN  /\ Len(netdev) = 1 + Len(forwardedPorts)
           /\ \A i \in DOMAIN forwardedPorts :
                  netdev[i + 1] = ForwardOf(forwardedPorts[i])

\* C24: for RAM in [512, 8192] and a CPU count in [1, 8], the argument
\* vector of a launch holds each required flag exactly once (machine, -smp
\* with the count asked for, -m with the RAM asked for, display none, one
\* disk, one boot medium, one network device with the configured forwards in
\* their order, one control socket), and a launcher asked twice for the same
\* configuration builds the same arguments.
C24_LaunchArgumentsComplete ==
    [][(lastLaunch'.by # "none" /\ ValidConfig(lastLaunch'.ram, lastLaunch'.cpu))
       => /\ RequiredFlagsOnce(lastLaunch')
          /\ (/\ lastLaunch.by = lastLaunch'.by
              /\ lastLaunch.ram = lastLaunch'.ram
              /\ lastLaunch.cpu = lastLaunch'.cpu)
             => Tail(lastLaunch.argv) = Tail(lastLaunch'.argv)]_vars

\* C25: whatever loadSettings, setRamMB, setCpuCores and the settings store's
\* setVmRam / setVmCpu have done, the ramMB and cpuCores of the VM store, which
\* startVM passes to the launch when it is called without arguments, lie in
\* [512, 8192] and [1, 8]; and a setRamMB or setCpuCores with a value outside
\* its range changes neither the store nor the persisted items.
C25_StoredConfigInRange ==
    [][/\ ValidConfig(ramMB', cpuCores')
       /\ \A ram \in RamWrites :
              (Store_setRamMB(ram) /\ ~(ram >= MIN_RAM_MB /\ ram <= MAX_RAM_MB))
              => UNCHANGED <<ramMB, cpuCores, asyncStorage, settling>>
       /\ \A cores \in CpuWrites :
              (/\ Store_setCpuCores(cores)
               /\ ~(cores >= MIN_CPU_CORES /\ cores <= MAX_CPU_CORES))
              => UNCHANGED <<ramMB, cpuCores, asyncStorage, settling>>]_vars

\* C26: however nativeStop and nativeGetStatus interleave on one handle,
\* every kill and every waitpid either of them makes is given a pid that
\* nativeStart recorded, never a pid <= 0.
C26_SignalsOnlyRecordedPid ==
    lastSys.fn \in {"kill", "waitpid"}
        => (lastSys.pid > 0 /\ lastSys.pid \in started)

\* C27: the store holds at most one subscription for each event kind,
\* whatever starts, stops, restarts and status events have happened.
C27_OneSubscriptionPerEvent ==
    \A k \in EventKinds : listeners[k] <= 1

\* C28: at most one polling timer is live, and statusInterval is that timer:
\* there is a live timer exactly when statusInterval is set, and it is the
\* one statusInterval names.
C28_OnePollingTimer ==
    /\ Cardinality(timers) <= 1
    /\ statusInterval = 0 <=> timers = {}
    /\ statusInterval # 0 => timers = {statusInterval}

\* a second successful start replaced the polling timer of the first
C28_Witness ==
    /\ listeners["vmStatus"] = 2
    /\ vmStatus = RUNNING
    /\ statusInterval # 0
    /\ timers = {statusInterval}

\* C29: in the service isRunning is true exactly when qemuProcess is set,
\* and a child that has not exited belongs to a service whose isRunning is
\* true, so that the next stopQemu ends it.
C29_RunningIffProcess ==
    /\ isRunning <=> qemuProcess
    /\ proc \in {"running", "terminating"} => isRunning

\* C30: when the child has exited without a stop having been asked of the
\* service, the service does not ignore a START as "already running": it
\* tries to spawn a new process.
C30_StartAfterChildDied ==
    [][(Service_startQemu /\ proc = "exited" /\ isRunning)
       => proc' = "running" \/ ~isRunning']_vars

====
